---------------------------- MODULE Spec2Model ----------------------------
(***************************************************************************)
(* A model of the transcript pipeline of tecace-soft/ax-pro:               *)
(*   src/extract_transcripts.py   the extraction batch                     *)
(*   src/process_transcripts.py   split_into_sessions,                     *)
(*                                extract_dialogue_segments,               *)
(*                                process_video_transcripts                *)
(*   src/enhance_translations.py  TRANSLATION_PATTERNS,                    *)
(*                                translate_korean_text                    *)
(*                                                                         *)
(* A Python str is modelled as a sequence of characters, each character a  *)
(* TLA+ string: an ASCII character is itself ("a", " ", "."), a Hangul     *)
(* syllable is "h:" followed by its romanisation ("h:meo" is U+BA38).      *)
(* len(), slicing, concatenation and comparison are then those of          *)
(* sequences.                                                              *)
(***************************************************************************)
EXTENDS Integers, Sequences, FiniteSets, TLC

VARIABLES
    stage,          \* which script/function runs and how far it is
    entries,        \* split_into_sessions: argument entries
    num_sessions,   \* split_into_sessions: argument num_sessions
    split_out,      \* split_into_sessions: what the call produced
    seg_entries,    \* extract_dialogue_segments: argument entries
    min_length,     \* extract_dialogue_segments: argument min_length
    max_length,     \* extract_dialogue_segments: argument max_length
    segments,       \* extract_dialogue_segments: the list returned
    ko_text,        \* translate_korean_text: argument ko_text
    result,         \* translate_korean_text: result when the rule loop ends
    translation,    \* translate_korean_text: the string returned
    snapshot,       \* process_video_transcripts: youtube_transcripts.json,
                    \*   its (video id, record) pairs in file order
    cursor,         \* process_video_transcripts: the pair the loop is at
    processed,      \* process_video_transcripts: the dict processed
    processed_file, \* process_video_transcripts: processed_transcripts.json
    transcripts,    \* extraction: the dict transcripts
    video_cursor,   \* extraction: the video the loop is at
    fetched,        \* extraction: per video handled, whether api.fetch
                    \*   returned a transcript in some language
    transcripts_file \* extraction: youtube_transcripts.json

splitVars == <<entries, num_sessions, split_out>>
segVars == <<seg_entries, min_length, max_length, segments>>
translateVars == <<ko_text, result, translation>>
processVars == <<snapshot, cursor, processed, processed_file>>
extractVars == <<transcripts, video_cursor, fetched, transcripts_file>>
vars == <<stage, splitVars, segVars, translateVars, processVars, extractVars>>

\* The variables of a function or script that is not running.
SplitIdle ==
    entries = <<>> /\ num_sessions = 0 /\ split_out = [raised |-> "", value |-> <<>>]
SegIdle ==
    seg_entries = <<>> /\ min_length = 0 /\ max_length = 0 /\ segments = <<>>
TranslateIdle ==
    ko_text = <<>> /\ result = <<>> /\ translation = <<>>
ProcessIdle ==
    snapshot = <<>> /\ cursor = 0 /\ processed = <<>> /\ processed_file = <<>>
ExtractIdle ==
    transcripts = <<>> /\ video_cursor = 0 /\ fetched = <<>> /\ transcripts_file = <<>>

-----------------------------------------------------------------------------
(* Python built-ins used by the scripts *)

Min(a, b) == IF a < b THEN a ELSE b
Max(a, b) == IF a > b THEN a ELSE b

\* s[a:b] for a list or str s and integers a, b (negative indices count
\* from the end, both ends are clamped to [0, len(s)]).
SliceIndex(k, n) == IF k < 0 THEN Max(k + n, 0) ELSE Min(k, n)

PySliceShifted(s, a, b) ==
    SubSeq(s, SliceIndex(a, Len(s)) + 1, Min(SliceIndex(b, Len(s)) + 1, Len(s)))

PySlice(s, a, b) == SubSeq(s, SliceIndex(a, Len(s)) + 1, SliceIndex(b, Len(s)))

\* range(n): the integers 0 .. n-1, empty when n <= 0.
PyRange(n) == 0 .. (n - 1)

RECURSIVE Concat(_)
Concat(ss) == IF ss = <<>> THEN <<>> ELSE Head(ss) \o Concat(Tail(ss))

RECURSIVE SumSeq(_)
SumSeq(ns) == IF ns = <<>> THEN 0 ELSE Head(ns) + SumSeq(Tail(ns))

Range(s) == {s[k] : k \in DOMAIN s}

\* The least element of a non-empty set of integers.
Least(S) == CHOOSE x \in S : \A y \in S : x <= y

-----------------------------------------------------------------------------
(* src/process_transcripts.py: split_into_sessions *)

\* Bounds of the inputs of split_into_sessions.
MaxTotal == 12
MaxSessions == 6
MaxNegSessions == 2

\* The entry sequence of length total; an entry is named by its position,
\* so that two sessions sharing an entry can be told.
EntriesOfLength(total) == [k \in 1..total |-> k]

Totals == (0..MaxTotal) \cup {237}

\* start = i * per_session
SessionStart(i, per_session) == i * per_session

\* end = start + per_session if i < num_sessions - 1 else total
SessionEndNoRemainder(i, per_session, n, total) ==
    SessionStart(i, per_session) + per_session

SessionEnd(i, per_session, n, total) ==
    IF i < n - 1 THEN SessionStart(i, per_session) + per_session ELSE total

\* The call's outcome: the exception raised ("" when none) and the list
\* returned. total // 0 raises ZeroDivisionError before the loop; a
\* negative num_sessions makes range(num_sessions) empty.
split_into_sessions(es, n) ==
    IF n = 0
    THEN [raised |-> "ZeroDivisionError", value |-> <<>>]
    ELSE LET total == Len(es)
             per_session == total \div n
             count == Cardinality(PyRange(n))
         IN  [raised |-> "",
              value |-> [k \in 1..count |->
                           PySlice(es, SessionStart(k - 1, per_session),
                                   SessionEnd(k - 1, per_session, n, total))]]

SplitInit ==
    /\ stage = "split:call"
    /\ entries \in {EntriesOfLength(t) : t \in Totals}
    /\ num_sessions \in (0 - MaxNegSessions)..MaxSessions
    /\ split_out = [raised |-> "", value |-> <<>>]
    /\ SegIdle
    /\ TranslateIdle
    /\ ProcessIdle
    /\ ExtractIdle

CallSplit ==
    /\ stage = "split:call"
    /\ split_out' = split_into_sessions(entries, num_sessions)
    /\ stage' = IF split_out'.raised = "" THEN "split:returned" ELSE "split:raised"
    /\ UNCHANGED <<entries, num_sessions, segVars, translateVars, processVars, extractVars>>

SplitNext == CallSplit

SpecSplit == SplitInit /\ [][SplitNext]_vars

SessionSizes == [k \in DOMAIN split_out.value |-> Len(split_out.value[k])]

\* C1: for total >= 0 and num_sessions >= 1 the call returns exactly
\* num_sessions sessions, their sizes sum to total, no entry is in two
\* sessions, and the sessions concatenated in order are the input.
C1_SplitPartitions ==
    (stage # "split:call" /\ num_sessions >= 1) =>
        /\ stage = "split:returned"
        /\ Len(split_out.value) = num_sessions
        /\ SumSeq(SessionSizes) = Len(entries)
        /\ \A a, b \in DOMAIN split_out.value :
              a # b => Range(split_out.value[a]) \cap Range(split_out.value[b]) = {}
        /\ Concat(split_out.value) = entries

\* total < num_sessions: the leading sessions are empty, the last holds all.
C1_Witness ==
    /\ stage = "split:returned"
    /\ Len(entries) = 3 /\ num_sessions = 5
    /\ split_out.value = <<<<>>, <<>>, <<>>, <<>>, <<1, 2, 3>>>>

\* C2: every session but the last holds floor(total / num_sessions)
\* entries and the last holds the rest; 237 entries in 5 sessions give
\* [47, 47, 47, 47, 49].
C2_SessionSizes ==
    (stage # "split:call" /\ num_sessions >= 1) =>
        LET total == Len(entries)
            per == total \div num_sessions
        IN  /\ DOMAIN split_out.value = 1..num_sessions
            /\ \A k \in 1..(num_sessions - 1) : Len(split_out.value[k]) = per
            /\ Len(split_out.value[num_sessions]) = total - (num_sessions - 1) * per
            /\ (total = 237 /\ num_sessions = 5) =>
                   SessionSizes = <<47, 47, 47, 47, 49>>

C2_Witness ==
    /\ stage = "split:returned"
    /\ Len(entries) = 237 /\ num_sessions = 5
    /\ SessionSizes = <<47, 47, 47, 47, 49>>

\* C3: a call with num_sessions <= 0 raises and returns no list.
C3_NonPositiveFailsFast ==
    (stage # "split:call" /\ num_sessions <= 0) => stage = "split:raised"

-----------------------------------------------------------------------------
(* Python str operations used by extract_dialogue_segments *)

\* The characters of an ASCII literal.
Str(s) == [k \in 1..Len(s) |-> SubSeq(s, k, k)]

\* str.isspace() and the regex class \s agree on every character; of the
\* whitespace characters these are the ones a TLA+ string can spell.
Whitespace == {" ", "\t", "\n", "\r", "\f"}
IsSpace(c) == c \in Whitespace

\* The regex class [.!?]
Terminators == {".", "!", "?"}

\* str.strip(): leading and trailing whitespace removed.
RECURSIVE LStrip(_)
LStrip(s) == IF s # <<>> /\ IsSpace(Head(s)) THEN LStrip(Tail(s)) ELSE s

RECURSIVE RStrip(_)
RStrip(s) ==
    IF s # <<>> /\ IsSpace(s[Len(s)]) THEN RStrip(SubSeq(s, 1, Len(s) - 1)) ELSE s

Strip(s) == RStrip(LStrip(s))

\* The last position of the run of whitespace that starts at position k.
RECURSIVE SpaceRunEnd(_, _)
SpaceRunEnd(s, k) ==
    IF k + 1 <= Len(s) /\ IsSpace(s[k + 1]) THEN SpaceRunEnd(s, k + 1) ELSE k

\* Whether r'[.!?]\s+' matches at position k of s.
BoundaryAt(s, k) ==
    /\ s[k] \in Terminators
    /\ k + 1 <= Len(s)
    /\ IsSpace(s[k + 1])

\* re.split(r'[.!?]\s+', s): the pieces between the non-overlapping
\* matches, found left to right; piece is where the current piece starts.
\* The match at the leftmost position at or after piece ends the piece,
\* and the scan goes on after the match's whitespace. The list always has
\* at least one piece.
RECURSIVE SplitFrom(_, _)
SplitFrom(s, piece) ==
    LET boundaries == {k \in piece..Len(s) : BoundaryAt(s, k)}
    IN  IF boundaries = {} THEN <<SubSeq(s, piece, Len(s))>>
        ELSE <<SubSeq(s, piece, Least(boundaries) - 1)>>
             \o SplitFrom(s, SpaceRunEnd(s, Least(boundaries) + 1) + 1)

ReSplitSentences(s) == SplitFrom(s, 1)

-----------------------------------------------------------------------------
(* src/process_transcripts.py: extract_dialogue_segments *)

\* segments[:30]
SegmentLimit == 30

\* for sentence in sentences[:-1]: the stripped sentences whose length is
\* in [min, max], in order.
RECURSIVE KeptSentences(_, _, _)
KeptSentences(sentences, min, max) ==
    IF sentences = <<>> THEN <<>>
    ELSE LET sentence == Strip(Head(sentences))
         IN  (IF min <= Len(sentence) /\ Len(sentence) <= max
              THEN <<sentence>> ELSE <<>>)
             \o KeptSentences(Tail(sentences), min, max)

\* current_segment = sentences[-1] if sentences else ""
CarryWholeBuffer(buffer, sentences) == buffer

CarryForward(buffer, sentences) ==
    IF sentences # <<>> THEN sentences[Len(sentences)] ELSE <<>>

\* One pass of the loop body over an entry; st holds segments and
\* current_segment.
EntryStep(st, entry, min, max) ==
    LET text == Strip(entry.text)
    IN  IF text = <<>> THEN st
        ELSE LET buffer == IF st.current_segment # <<>>
                           THEN st.current_segment \o <<" ">> \o text
                           ELSE text
             IN  IF Len(buffer) >= min
                 THEN LET sentences == ReSplitSentences(buffer)
                      IN  [segments |->
                               st.segments
                               \o KeptSentences(PySlice(sentences, 0, -1), min, max),
                           current_segment |-> CarryForward(buffer, sentences)]
                 ELSE [segments |-> st.segments, current_segment |-> buffer]

\* The loop over entries, from segments = [] and current_segment = "".
RECURSIVE EntryLoop(_, _, _, _)
EntryLoop(st, es, min, max) ==
    IF es = <<>> THEN st
    ELSE EntryLoop(EntryStep(st, Head(es), min, max), Tail(es), min, max)

\* The list before the final slice: the loop's segments, then
\* current_segment when it is at least min long.
CollectedSegments(es, min, max) ==
    LET st == EntryLoop([segments |-> <<>>, current_segment |-> <<>>], es, min, max)
    IN  IF Len(st.current_segment) >= min
        THEN Append(st.segments, st.current_segment)
        ELSE st.segments

\* return segments[:30]
LimitUncapped(segs) == segs

Limit(segs) == PySlice(segs, 0, SegmentLimit)

extract_dialogue_segments(es, min, max) == Limit(CollectedSegments(es, min, max))

\* Bounds of the inputs of extract_dialogue_segments: up to MaxRepeat
\* copies of one entry, then up to MaxTail entries drawn from SampleTexts.
MaxRepeat == 16
MaxTail == 2
MaxMinLength == 3
MaxMaxLength == 4

RepeatedText == Str("ab. cd.")

SampleTexts ==
    {Str("ab"), Str("  "), Str(" a. b "), Str("abcde! f"), Str("x?\nyz"), Str("abc. d. efg")}

RECURSIVE SeqsUpTo(_, _)
SeqsUpTo(S, n) ==
    IF n = 0 THEN {<<>>}
    ELSE SeqsUpTo(S, n - 1)
         \cup {Append(q, x) : q \in {p \in SeqsUpTo(S, n - 1) : Len(p) = n - 1}, x \in S}

EntryOf(text) == [text |-> text]

SegmentInputs ==
    {[k \in 1..r |-> EntryOf(RepeatedText)] \o tail :
        r \in 0..MaxRepeat,
        tail \in {[k \in DOMAIN t |-> EntryOf(t[k])] : t \in SeqsUpTo(SampleTexts, MaxTail)}}

SegInit ==
    /\ stage = "segments:call"
    /\ seg_entries \in SegmentInputs
    /\ min_length \in 0..MaxMinLength
    /\ max_length \in 1..MaxMaxLength
    /\ segments = <<>>
    /\ SplitIdle
    /\ TranslateIdle
    /\ ProcessIdle
    /\ ExtractIdle

CallExtractSegments ==
    /\ stage = "segments:call"
    /\ segments' = extract_dialogue_segments(seg_entries, min_length, max_length)
    /\ stage' = "segments:returned"
    /\ UNCHANGED <<seg_entries, min_length, max_length, splitVars, translateVars, processVars, extractVars>>

SegNext == CallExtractSegments

SpecSegments == SegInit /\ [][SegNext]_vars

InLengthRange(seg) == min_length <= Len(seg) /\ Len(seg) <= max_length

\* C4: at most 30 segments are returned and at most one of them has a
\* length outside [min_length, max_length].
C4_SegmentsCappedAndBounded ==
    stage = "segments:returned" =>
        /\ Len(segments) <= 30
        /\ Cardinality({k \in DOMAIN segments : ~InLengthRange(segments[k])}) <= 1

\* More than 30 segments were collected and the slice cut them to 30.
C4_Witness ==
    /\ stage = "segments:returned"
    /\ Len(CollectedSegments(seg_entries, min_length, max_length)) > 30
    /\ Len(segments) = 30

\* The other case of C4: the leftover is returned although longer than
\* max_length.
C4_OverlongLeftoverReturned ==
    /\ stage = "segments:returned"
    /\ Cardinality({k \in DOMAIN segments : ~InLengthRange(segments[k])}) = 1

HasBoundary(seg) == \E k \in DOMAIN seg : BoundaryAt(seg, k)

\* C10: every returned segment, the leftover included, is at least
\* min_length long and holds no terminator followed by whitespace.
C10_SegmentsAreSingleSentences ==
    stage = "segments:returned" =>
        \A k \in DOMAIN segments :
            /\ Len(segments[k]) >= min_length
            /\ ~HasBoundary(segments[k])

\* The leftover of a buffer that was split is returned as the last segment.
C10_Witness ==
    /\ stage = "segments:returned"
    /\ LET st == EntryLoop([segments |-> <<>>, current_segment |-> <<>>],
                           seg_entries, min_length, max_length)
       IN  /\ st.segments # <<>>
           /\ Len(st.current_segment) >= min_length
           /\ Len(segments) = Len(st.segments) + 1
           /\ segments[Len(segments)] = st.current_segment
    /\ \A k \in DOMAIN segments : InLengthRange(segments[k])

-----------------------------------------------------------------------------
(* Python re, for the patterns of TRANSLATION_PATTERNS.  Every pattern is *)
(* a sequence of literals, lazy wildcards .*? and at most one group       *)
(* ([가-힣]+).  The literals hold only Hangul syllables and spaces,        *)
(* which have no case, so re.IGNORECASE changes nothing.                  *)

\* A pattern element: a literal, .*? or ([가-힣]+)
Lit(cs) == [kind |-> "lit", chars |-> cs]
Lazy == [kind |-> "lazy"]
HangulGroup == [kind |-> "group"]

\* The class [가-힣]: every Hangul syllable, which is every character
\* spelled "h:...".
IsHangul(c) == Len(c) > 2 /\ SubSeq(c, 1, 2) = "h:"

\* What . matches without re.DOTALL: anything but a newline.
DotMatches(c) == c # "\n"

\* The literal cs is at position k of s.
LitAt(cs, s, k) == k + Len(cs) - 1 <= Len(s) /\ SubSeq(s, k, k + Len(cs) - 1) = cs

\* The length of the run of Hangul syllables that starts at position k.
RECURSIVE HangulRun(_, _)
HangulRun(s, k) ==
    IF k <= Len(s) /\ IsHangul(s[k]) THEN 1 + HangulRun(s, k + 1) ELSE 0

NoMatch == [ok |-> FALSE, end |-> 0, group |-> <<>>]

\* The backtracking match of the elements j.. of pattern p at position k
\* of s: the first match in the engine's order of preference (.*? takes
\* the shortest stretch after which the rest matches, [가-힣]+ the
\* longest), with the position of its last character and the text of
\* group 1.
RECURSIVE MatchFrom(_, _, _, _)
RECURSIVE GroupFrom(_, _, _, _, _)

\* The last position .*? can reach from position k: the end of the line.
LineEnd(s, k) == Least({i \in k..Len(s) : ~DotMatches(s[i])} \cup {Len(s) + 1}) - 1

MatchFrom(p, j, s, k) ==
    IF j > Len(p) THEN [ok |-> TRUE, end |-> k - 1, group |-> <<>>]
    ELSE IF p[j].kind = "lit"
         THEN IF LitAt(p[j].chars, s, k)
              THEN MatchFrom(p, j + 1, s, k + Len(p[j].chars))
              ELSE NoMatch
         ELSE IF p[j].kind = "lazy"
              THEN LET stretches ==
                           {n \in 0..(LineEnd(s, k) - k + 1) :
                                MatchFrom(p, j + 1, s, k + n).ok}
                   IN  IF stretches = {} THEN NoMatch
                       ELSE MatchFrom(p, j + 1, s, k + Least(stretches))
              ELSE GroupFrom(p, j, s, k, HangulRun(s, k))

GroupFrom(p, j, s, k, n) ==
    IF n < 1 THEN NoMatch
    ELSE LET m == MatchFrom(p, j + 1, s, k + n)
         IN  IF m.ok THEN [m EXCEPT !.group = SubSeq(s, k, k + n - 1)]
             ELSE GroupFrom(p, j, s, k, n - 1)

\* The positions at or after k where p matches.
MatchStarts(p, s, k) == {i \in k..Len(s) : MatchFrom(p, 1, s, i).ok}

\* re.search(p, s): the match at the leftmost position that has one.
ReSearch(p, s) ==
    IF MatchStarts(p, s, 1) = {} THEN NoMatch
    ELSE MatchFrom(p, 1, s, Least(MatchStarts(p, s, 1)))

\* re.sub(p, repl, s): every non-overlapping match, left to right,
\* replaced by repl (no replacement of the table holds a backslash, and
\* no pattern matches the empty string).
RECURSIVE SubFrom(_, _, _, _)
SubFrom(p, repl, s, k) ==
    LET starts == MatchStarts(p, s, k)
    IN  IF starts = {} THEN SubSeq(s, k, Len(s))
        ELSE SubSeq(s, k, Least(starts) - 1) \o repl
             \o SubFrom(p, repl, s, MatchFrom(p, 1, s, Least(starts)).end + 1)

ReSub(p, repl, s) == SubFrom(p, repl, s, 1)

\* needle in s
Contains(s, needle) ==
    \E k \in 1..(Len(s) - Len(needle) + 1) : SubSeq(s, k, k + Len(needle) - 1) = needle

\* sep.join(parts)
RECURSIVE Join(_, _)
Join(sep, parts) ==
    IF parts = <<>> THEN <<>>
    ELSE IF Len(parts) = 1 THEN parts[1]
         ELSE parts[1] \o sep \o Join(sep, Tail(parts))

-----------------------------------------------------------------------------
(* src/enhance_translations.py: TRANSLATION_PATTERNS *)

\* A rule whose value is a str, and a rule whose value is the lambda
\* m -> before + m.group(1) + after.
StrRule(p, repl) == [callable |-> FALSE, pattern |-> p, replacement |-> repl]
CallableRule(p, before, after) ==
    [callable |-> TRUE, pattern |-> p, before |-> before, after |-> after]

\* r'안녕하세요.*?저는.*?([가-힣]+).*?라고 합니다'
Rule01 ==
    CallableRule(
        <<Lit(<<"h:an", "h:nyeong", "h:ha", "h:se", "h:yo">>), Lazy,
          Lit(<<"h:jeo", "h:neun">>), Lazy, HangulGroup, Lazy,
          Lit(<<"h:ra", "h:go", " ", "h:hab", "h:ni", "h:da">>)>>,
        Str("Hello, I'm "),
        Str(", and I'll be teaching this course."))

\* r'안녕하십니까.*?([가-힣]+).*?라고 합니다'
Rule02 ==
    CallableRule(
        <<Lit(<<"h:an", "h:nyeong", "h:ha", "h:sib", "h:ni", "h:kka">>),
          Lazy, HangulGroup, Lazy,
          Lit(<<"h:ra", "h:go", " ", "h:hab", "h:ni", "h:da">>)>>,
        Str("Hello, I'm "),
        Str(", and I'll be teaching this course."))

\* r'제 소개를.*?박사 과정.*?대학원'
Rule03 ==
    StrRule(
        <<Lit(<<"h:je", " ", "h:so", "h:gae", "h:reul">>), Lazy,
          Lit(<<"h:bag", "h:sa", " ", "h:gwa", "h:jeong">>), Lazy,
          Lit(<<"h:dae", "h:hag", "h:won">>)>>,
        Str("I am currently a PhD student at Tech University AI Graduate School."))

\* r'오늘은.*?([가-힣]+).*?에 대해서.*?다뤄.*?보려고'
Rule04 ==
    CallableRule(
        <<Lit(<<"h:o", "h:neul", "h:eun">>), Lazy, HangulGroup, Lazy,
          Lit(<<"h:e", " ", "h:dae", "h:hae", "h:seo">>), Lazy,
          Lit(<<"h:da", "h:rwo">>), Lazy, Lit(<<"h:bo", "h:ryeo", "h:go">>)>>,
        Str("Today we will cover "),
        Str("."))

\* r'오늘은.*?([가-힣]+).*?에 대해서.*?공부.*?할.*?예정'
Rule05 ==
    CallableRule(
        <<Lit(<<"h:o", "h:neul", "h:eun">>), Lazy, HangulGroup, Lazy,
          Lit(<<"h:e", " ", "h:dae", "h:hae", "h:seo">>), Lazy,
          Lit(<<"h:gong", "h:bu">>), Lazy, Lit(<<"h:hal">>), Lazy,
          Lit(<<"h:ye", "h:jeong">>)>>,
        Str("Today we will study "),
        Str("."))

\* r'머신러닝.*?기계 학습.*?강의'
Rule06 ==
    StrRule(
        <<Lit(<<"h:meo", "h:sin", "h:reo", "h:ning">>), Lazy,
          Lit(<<"h:gi", "h:gye", " ", "h:hag", "h:seub">>), Lazy,
          Lit(<<"h:gang", "h:ui">>)>>,
        Str("This is a machine learning course."))

\* r'기계 학습이 무엇이고'
Rule07 ==
    StrRule(
        <<Lit(<<"h:gi", "h:gye", " ", "h:hag", "h:seub", "h:i", " ", "h:mu", "h:eos", "h:i", "h:go">>)>>,
        Str("what machine learning is"))

\* r'다섯 가지.*?섹션'
Rule08 ==
    StrRule(
        <<Lit(<<"h:da", "h:seos", " ", "h:ga", "h:ji">>), Lazy,
          Lit(<<"h:seg", "h:syeon">>)>>,
        Str("five major sections"))

\* r'알고리즘.*?방법론'
Rule09 ==
    StrRule(
        <<Lit(<<"h:al", "h:go", "h:ri", "h:jeum">>), Lazy,
          Lit(<<"h:bang", "h:beob", "h:ron">>)>>,
        Str("algorithms and methodologies"))

\* r'딥러닝.*?신경망'
Rule10 ==
    StrRule(
        <<Lit(<<"h:dib", "h:reo", "h:ning">>), Lazy,
          Lit(<<"h:sin", "h:gyeong", "h:mang">>)>>,
        Str("deep learning and neural networks"))

\* r'컴퓨터 비전.*?비전'
Rule11 ==
    StrRule(
        <<Lit(<<"h:keom", "h:pyu", "h:teo", " ", "h:bi", "h:jeon">>), Lazy,
          Lit(<<"h:bi", "h:jeon">>)>>,
        Str("computer vision"))

\* r'이미지 데이터.*?특징.*?추출'
Rule12 ==
    StrRule(
        <<Lit(<<"h:i", "h:mi", "h:ji", " ", "h:de", "h:i", "h:teo">>), Lazy,
          Lit(<<"h:teug", "h:jing">>), Lazy, Lit(<<"h:chu", "h:chul">>)>>,
        Str("extract features from image data"))

\* r'인공지능.*?개론'
Rule13 ==
    StrRule(
        <<Lit(<<"h:in", "h:gong", "h:ji", "h:neung">>), Lazy,
          Lit(<<"h:gae", "h:ron">>)>>,
        Str("introduction to artificial intelligence"))

\* r'알파고.*?알파.*?고'
Rule14 ==
    StrRule(
        <<Lit(<<"h:al", "h:pa", "h:go">>), Lazy, Lit(<<"h:al", "h:pa">>),
          Lazy, Lit(<<"h:go">>)>>,
        Str("AlphaGo"))

\* r'바둑.*?대국'
Rule15 ==
    StrRule(
        <<Lit(<<"h:ba", "h:dug">>), Lazy, Lit(<<"h:dae", "h:gug">>)>>,
        Str("Go game matches"))

\* r'빅데이터.*?분석'
Rule16 ==
    StrRule(
        <<Lit(<<"h:big", "h:de", "h:i", "h:teo">>), Lazy,
          Lit(<<"h:bun", "h:seog">>)>>,
        Str("big data analysis"))

\* r'스포츠.*?적용'
Rule17 ==
    StrRule(
        <<Lit(<<"h:seu", "h:po", "h:cheu">>), Lazy,
          Lit(<<"h:jeog", "h:yong">>)>>,
        Str("application in sports"))

\* r'퍼포먼스.*?측정'
Rule18 ==
    StrRule(
        <<Lit(<<"h:peo", "h:po", "h:meon", "h:seu">>), Lazy,
          Lit(<<"h:cheug", "h:jeong">>)>>,
        Str("performance measurement"))

\* r'로지스틱.*?회귀.*?분석'
Rule19 ==
    StrRule(
        <<Lit(<<"h:ro", "h:ji", "h:seu", "h:tig">>), Lazy,
          Lit(<<"h:hoe", "h:gwi">>), Lazy, Lit(<<"h:bun", "h:seog">>)>>,
        Str("logistic regression analysis"))

\* r'분류.*?모델'
Rule20 ==
    StrRule(
        <<Lit(<<"h:bun", "h:ryu">>), Lazy, Lit(<<"h:mo", "h:del">>)>>,
        Str("classification model"))

\* r'시그모이드.*?함수'
Rule21 ==
    StrRule(
        <<Lit(<<"h:si", "h:geu", "h:mo", "h:i", "h:deu">>), Lazy,
          Lit(<<"h:ham", "h:su">>)>>,
        Str("sigmoid function"))

\* r'소프트맥스.*?함수'
Rule22 ==
    StrRule(
        <<Lit(<<"h:so", "h:peu", "h:teu", "h:maeg", "h:seu">>), Lazy,
          Lit(<<"h:ham", "h:su">>)>>,
        Str("softmax function"))

\* r'다음.*?예제.*?넘어가'
Rule23 ==
    StrRule(
        <<Lit(<<"h:da", "h:eum">>), Lazy, Lit(<<"h:ye", "h:je">>), Lazy,
          Lit(<<"h:neom", "h:eo", "h:ga">>)>>,
        Str("Let's move on to the next example."))

\* r'노트.*?열고.*?따라와'
Rule24 ==
    StrRule(
        <<Lit(<<"h:no", "h:teu">>), Lazy, Lit(<<"h:yeol", "h:go">>), Lazy,
          Lit(<<"h:tta", "h:ra", "h:wa">>)>>,
        Str("Please open your notebook and follow along."))

\* r'연습.*?가장.*?좋은.*?방법'
Rule25 ==
    StrRule(
        <<Lit(<<"h:yeon", "h:seub">>), Lazy, Lit(<<"h:ga", "h:jang">>), Lazy,
          Lit(<<"h:joh", "h:eun">>), Lazy, Lit(<<"h:bang", "h:beob">>)>>,
        Str("Practice is the best way to learn."))

\* r'함께.*?공부.*?하겠습니다'
Rule26 ==
    StrRule(
        <<Lit(<<"h:ham", "h:kke">>), Lazy, Lit(<<"h:gong", "h:bu">>), Lazy,
          Lit(<<"h:ha", "h:gess", "h:seub", "h:ni", "h:da">>)>>,
        Str("We will study together."))

\* r'차근차근.*?코스를.*?통해서'
Rule27 ==
    StrRule(
        <<Lit(<<"h:cha", "h:geun", "h:cha", "h:geun">>), Lazy,
          Lit(<<"h:ko", "h:seu", "h:reul">>), Lazy,
          Lit(<<"h:tong", "h:hae", "h:seo">>)>>,
        Str("step by step through this course"))

\* r'예를.*?들면'
Rule28 ==
    StrRule(
        <<Lit(<<"h:ye", "h:reul">>), Lazy, Lit(<<"h:deul", "h:myeon">>)>>,
        Str("For example,"))

\* r'이제.*?배워.*?보겠습니다'
Rule29 ==
    StrRule(
        <<Lit(<<"h:i", "h:je">>), Lazy, Lit(<<"h:bae", "h:wo">>), Lazy,
          Lit(<<"h:bo", "h:gess", "h:seub", "h:ni", "h:da">>)>>,
        Str("Now let's learn"))

\* r'정리.*?해.*?보겠습니다'
Rule30 ==
    StrRule(
        <<Lit(<<"h:jeong", "h:ri">>), Lazy, Lit(<<"h:hae">>), Lazy,
          Lit(<<"h:bo", "h:gess", "h:seub", "h:ni", "h:da">>)>>,
        Str("Let's summarize"))

\* The dict in insertion order, the order in which .items() yields it.
TRANSLATION_PATTERNS ==
    <<Rule01, Rule02, Rule03, Rule04, Rule05, Rule06,
      Rule07, Rule08, Rule09, Rule10, Rule11, Rule12,
      Rule13, Rule14, Rule15, Rule16, Rule17, Rule18,
      Rule19, Rule20, Rule21, Rule22, Rule23, Rule24,
      Rule25, Rule26, Rule27, Rule28, Rule29, Rule30>>

-----------------------------------------------------------------------------
(* src/enhance_translations.py: translate_korean_text *)

\* result = replacement(match): the lambda's string replaces result.
ApplyCallableAsSub(rule, m, result_) ==
    ReSub(rule.pattern, rule.before \o m.group \o rule.after, result_)

ApplyCallable(rule, m, result_) == rule.before \o m.group \o rule.after

\* The body of the loop for one rule: result after it.
RuleStep(rule, ko_text_, result_) ==
    IF ~rule.callable
    THEN IF ReSearch(rule.pattern, ko_text_).ok
         THEN ReSub(rule.pattern, rule.replacement, result_)
         ELSE result_
    ELSE LET match == ReSearch(rule.pattern, ko_text_)
         IN  IF match.ok THEN ApplyCallable(rule, match, result_) ELSE result_

\* The loop over the rules from rule j on.
RECURSIVE RuleLoopFrom(_, _, _)
RuleLoopFrom(j, ko_text_, result_) ==
    IF j > Len(TRANSLATION_PATTERNS) THEN result_
    ELSE RuleLoopFrom(j + 1, ko_text_,
                      RuleStep(TRANSLATION_PATTERNS[j], ko_text_, result_))

\* result = ko_text, then the loop.
RuleLoop(ko_text_) == RuleLoopFrom(1, ko_text_, ko_text_)

\* The keyword tests of lines 78-95, in order:
\*   '머신러닝' or '기계 학습' -> 'machine learning'
\*   '딥러닝' -> 'deep learning'
\*   '인공지능' or 'AI' -> 'artificial intelligence'
\*   '컴퓨터 비전' or '비전' -> 'computer vision'
\*   '로지스틱' or '회귀' -> 'logistic regression'
\*   '빅데이터' -> 'big data'
\*   '분석' -> 'analysis'
\*   '학습' -> 'learning'
\*   '모델' -> 'model'
ConceptGroups ==
    <<[keywords |-> {<<"h:meo", "h:sin", "h:reo", "h:ning">>,
                      <<"h:gi", "h:gye", " ", "h:hag", "h:seub">>},
       label |-> Str("machine learning")],
      [keywords |-> {<<"h:dib", "h:reo", "h:ning">>},
       label |-> Str("deep learning")],
      [keywords |-> {<<"h:in", "h:gong", "h:ji", "h:neung">>,
                      <<"A", "I">>},
       label |-> Str("artificial intelligence")],
      [keywords |-> {<<"h:keom", "h:pyu", "h:teo", " ", "h:bi", "h:jeon">>,
                      <<"h:bi", "h:jeon">>},
       label |-> Str("computer vision")],
      [keywords |-> {<<"h:ro", "h:ji", "h:seu", "h:tig">>,
                      <<"h:hoe", "h:gwi">>},
       label |-> Str("logistic regression")],
      [keywords |-> {<<"h:big", "h:de", "h:i", "h:teo">>},
       label |-> Str("big data")],
      [keywords |-> {<<"h:bun", "h:seog">>},
       label |-> Str("analysis")],
      [keywords |-> {<<"h:hag", "h:seub">>},
       label |-> Str("learning")],
      [keywords |-> {<<"h:mo", "h:del">>},
       label |-> Str("model")]>>
\* concepts: the labels of the groups with a keyword in ko_text, in order.
RECURSIVE ConceptsFrom(_, _)
ConceptsFrom(j, ko_text_) ==
    IF j > Len(ConceptGroups) THEN <<>>
    ELSE (IF \E w \in ConceptGroups[j].keywords : Contains(ko_text_, w)
          THEN <<ConceptGroups[j].label>> ELSE <<>>)
         \o ConceptsFrom(j + 1, ko_text_)

Concepts(ko_text_) == ConceptsFrom(1, ko_text_)

\* len(result) < len(ko_text) * 0.3.  The product is a double; for every
\* pair of lengths up to 2000 the comparison agrees with the exact
\* 10 * len(result) < 3 * len(ko_text).
CollapsedNever(result_, ko_text_) == FALSE

Collapsed(result_, ko_text_) == 10 * Len(result_) < 3 * Len(ko_text_)

\* ko_text[:50] and ko_text[:80]
SummaryChars == 50

PlaceholderCharsAsSummary == SummaryChars

PlaceholderChars == 80

\* Lines 74-100, given the result of the loop.
Finish(ko_text_, result_) ==
    LET concepts == Concepts(ko_text_)
    IN  IF (result_ = ko_text_ \/ Collapsed(result_, ko_text_)) /\ concepts # <<>>
        THEN Str("We will discuss ") \o Join(Str(", "), concepts)
             \o Str(" in this lecture. ") \o PySlice(ko_text_, 0, SummaryChars)
             \o Str("...")
        ELSE IF result_ # ko_text_ THEN result_
             ELSE Str("[Translation: ") \o PySlice(ko_text_, 0, PlaceholderChars)
                  \o Str("...]")

translate_korean_text(ko_text_) == Finish(ko_text_, RuleLoop(ko_text_))

\* Bounds of the inputs of translate_korean_text: a phrase, then either a
\* newline or up to MaxFillerChunks filler chunks, then a phrase.
MaxFillerChunks == 7

\* '오늘 날씨가 좋습니다': no rule matches, no keyword
Phrase01 ==
    <<"h:o", "h:neul", " ", "h:nal", "h:ssi", "h:ga", " ", "h:joh", "h:seub",
      "h:ni", "h:da">>
\* '안녕하세요 저는 민수라고 합니다': rule 1
Phrase02 ==
    <<"h:an", "h:nyeong", "h:ha", "h:se", "h:yo", " ", "h:jeo", "h:neun",
      " ", "h:min", "h:su", "h:ra", "h:go", " ", "h:hab", "h:ni", "h:da">>
\* '안녕하십니까 철수라고 합니다': rule 2
Phrase03 ==
    <<"h:an", "h:nyeong", "h:ha", "h:sib", "h:ni", "h:kka", " ", "h:cheol",
      "h:su", "h:ra", "h:go", " ", "h:hab", "h:ni", "h:da">>
\* '제 소개를 박사 과정 대학원': rule 3, a str rule declared between the callable rules
Phrase04 ==
    <<"h:je", " ", "h:so", "h:gae", "h:reul", " ", "h:bag", "h:sa", " ",
      "h:gwa", "h:jeong", " ", "h:dae", "h:hag", "h:won">>
\* '오늘은 빅데이터분석에 대해서 다뤄 보려고': rule 4; its group holds a match of rule 16
Phrase05 ==
    <<"h:o", "h:neul", "h:eun", " ", "h:big", "h:de", "h:i", "h:teo",
      "h:bun", "h:seog", "h:e", " ", "h:dae", "h:hae", "h:seo", " ", "h:da",
      "h:rwo", " ", "h:bo", "h:ryeo", "h:go">>
\* '공부 할 예정': after the previous phrase: rule 5
Phrase06 ==
    <<"h:gong", "h:bu", " ", "h:hal", " ", "h:ye", "h:jeong">>
\* '알파고': twice on a line: rule 14
Phrase07 ==
    <<"h:al", "h:pa", "h:go">>
\* 'AI 모델': two keywords, no rule
Phrase08 ==
    <<"A", "I", " ", "h:mo", "h:del">>
\* '기계 학습이 무엇이고': rule 7, two keywords
Phrase09 ==
    <<"h:gi", "h:gye", " ", "h:hag", "h:seub", "h:i", " ", "h:mu", "h:eos",
      "h:i", "h:go">>
\* '컴퓨터 비전': two keywords of one group; twice on a line: rule 11
Phrase10 ==
    <<"h:keom", "h:pyu", "h:teo", " ", "h:bi", "h:jeon">>

Phrases ==
    {<<>>, Phrase01, Phrase02, Phrase03, Phrase04, Phrase05, Phrase06,
      Phrase07, Phrase08, Phrase09, Phrase10}

\* ' 그리고 이것은 다음': 11 characters that no rule and no keyword matches.
FillerChunk ==
    <<" ", "h:geu", "h:ri", "h:go", " ", "h:i", "h:geos", "h:eun", " ",
      "h:da", "h:eum">>
RECURSIVE Repeat(_, _)
Repeat(s, n) == IF n = 0 THEN <<>> ELSE s \o Repeat(s, n - 1)

Separators == {Repeat(FillerChunk, n) : n \in 0..MaxFillerChunks} \cup {<<"\n">>}

SampleTexts_ko == {a \o sep \o b : a \in Phrases, sep \in Separators, b \in Phrases}

TranslateInit ==
    /\ stage = "translate:call"
    /\ ko_text \in SampleTexts_ko
    /\ result = <<>>
    /\ translation = <<>>
    /\ SplitIdle
    /\ SegIdle
    /\ ProcessIdle
    /\ ExtractIdle

\* One call: result is the local variable as the loop leaves it,
\* translation the value returned.
CallTranslate ==
    /\ stage = "translate:call"
    /\ result' = RuleLoop(ko_text)
    /\ translation' = Finish(ko_text, result')
    /\ stage' = "translate:returned"
    /\ UNCHANGED <<ko_text, splitVars, segVars, processVars, extractVars>>

TranslateNext == CallTranslate

SpecTranslate == TranslateInit /\ [][TranslateNext]_vars


FirstChars(s, n) == SubSeq(s, 1, Min(n, Len(s)))

KeywordFires(j) == \E w \in ConceptGroups[j].keywords : Contains(ko_text, w)

\* C5: when the loop leaves result equal to the text and no keyword
\* group fires, the call returns "[Translation: " + the first 80
\* characters of the text + "...]"; the text of Phrase01 is the example.
C5_PlaceholderWhenNothingMatches ==
    stage = "translate:returned" =>
        /\ (result = ko_text /\ \A j \in DOMAIN ConceptGroups : ~KeywordFires(j)) =>
               translation = Str("[Translation: ") \o FirstChars(ko_text, 80) \o Str("...]")
        /\ ko_text = Phrase01 =>
               translation = Str("[Translation: ") \o Phrase01 \o Str("...]")

\* A text of more than 80 characters is cut to 80 in the placeholder.
C5_Witness ==
    /\ stage = "translate:returned"
    /\ result = ko_text
    /\ \A j \in DOMAIN ConceptGroups : ~KeywordFires(j)
    /\ Len(ko_text) > 80
    /\ Len(translation) = Len(Str("[Translation: ")) + 80 + Len(Str("...]"))

\* The callable rules that match the text, by position in the table.
CallableMatches ==
    {j \in DOMAIN TRANSLATION_PATTERNS :
        /\ TRANSLATION_PATTERNS[j].callable
        /\ ReSearch(TRANSLATION_PATTERNS[j].pattern, ko_text).ok}

Greatest(S) == CHOOSE x \in S : \A y \in S : y <= x

\* The output of callable rule j.
CallableOutput(j) ==
    LET rule == TRANSLATION_PATTERNS[j]
    IN  rule.before \o ReSearch(rule.pattern, ko_text).group \o rule.after

\* C8 as stated: when a callable rule matches, result at the end of the
\* loop is the output of the last matching callable rule.
C8_ResultIsLastCallableOutput ==
    stage = "translate:returned" =>
        LET matches == CallableMatches
        IN  matches # {} => result = CallableOutput(Greatest(matches))

\* r with the substitutions of the str rules j.. that match the text.
RECURSIVE PatchedByStrRulesFrom(_, _)
PatchedByStrRulesFrom(j, r) ==
    IF j > Len(TRANSLATION_PATTERNS) THEN r
    ELSE LET rule == TRANSLATION_PATTERNS[j]
         IN  PatchedByStrRulesFrom(j + 1,
                 IF ~rule.callable /\ ReSearch(rule.pattern, ko_text).ok
                 THEN ReSub(rule.pattern, rule.replacement, r)
                 ELSE r)

\* C8 amended: when a callable rule matches, result at the end of the
\* loop is the output of the last matching callable rule with the
\* substitutions of the matching str rules declared after that rule
\* applied to it, in order; what the rules before it did is overwritten.
C8_ResultIsLastCallableOutputPatched ==
    stage = "translate:returned" =>
        LET matches == CallableMatches
        IN  matches # {} =>
                result = PatchedByStrRulesFrom(Greatest(matches) + 1,
                                               CallableOutput(Greatest(matches)))

\* Rule 4 captures a word that rule 16, declared later, rewrites.
C8_Witness ==
    /\ stage = "translate:returned"
    /\ ko_text = Phrase05
    /\ Greatest(CallableMatches) = 4
    /\ CallableOutput(4) = Str("Today we will cover ")
                           \o <<"h:big", "h:de", "h:i", "h:teo", "h:bun", "h:seog">>
                           \o Str(".")
    /\ result = Str("Today we will cover big data analysis.")

\* A str rule declared before the last matching callable rule matched,
\* and its patch is overwritten.
C8_EarlierPatchOverwritten ==
    /\ stage = "translate:returned"
    /\ ko_text = Phrase04 \o FillerChunk \o Phrase05
    /\ ReSearch(Rule03.pattern, ko_text).ok
    /\ result = Str("Today we will cover big data analysis.")

\* The labels in the order of the claim.
C9_LabelOrder ==
    <<Str("machine learning"), Str("deep learning"), Str("artificial intelligence"),
      Str("computer vision"), Str("logistic regression"), Str("big data"),
      Str("analysis"), Str("learning"), Str("model")>>

RECURSIVE C9_FiredLabelsFrom(_)
C9_FiredLabelsFrom(j) ==
    IF j > Len(C9_LabelOrder) THEN <<>>
    ELSE (IF KeywordFires(j) THEN <<C9_LabelOrder[j]>> ELSE <<>>)
         \o C9_FiredLabelsFrom(j + 1)

\* C9: when result is the text unchanged or shorter than 0.3 times the
\* text, and a keyword group occurs in the text, the call returns
\* "We will discuss " + the fired labels joined by ", " +
\* " in this lecture. " + the first 50 characters of the text + "...",
\* the labels in the fixed order, one per group.
C9_KeywordSummary ==
    (/\ stage = "translate:returned"
     /\ result = ko_text \/ 10 * Len(result) < 3 * Len(ko_text)
     /\ \E j \in DOMAIN ConceptGroups : KeywordFires(j)) =>
        /\ Len(ConceptGroups) = Len(C9_LabelOrder)
        /\ translation = Str("We will discuss ")
                         \o Join(Str(", "), C9_FiredLabelsFrom(1))
                         \o Str(" in this lecture. ")
                         \o FirstChars(ko_text, 50) \o Str("...")

\* Rule 11 collapsed a text of more than 50 characters to
\* "computer vision", and the keyword summary is returned instead.
C9_Witness ==
    /\ stage = "translate:returned"
    /\ result = Str("computer vision")
    /\ 10 * Len(result) < 3 * Len(ko_text)
    /\ Len(ko_text) > 50
    /\ translation = Str("We will discuss computer vision in this lecture. ")
                     \o FirstChars(ko_text, 50) \o Str("...")

\* The other case of C9: the text unchanged, two groups fire.
C9_UnchangedTwoLabels ==
    /\ stage = "translate:returned"
    /\ ko_text = Phrase08
    /\ result = ko_text
    /\ translation = Str("We will discuss artificial intelligence, model in this lecture. ")
                     \o Phrase08 \o Str("...")


-----------------------------------------------------------------------------
(* src/process_transcripts.py: process_video_transcripts *)

\* The defaults of extract_dialogue_segments, and the session count and
\* the entry count of lines 71 and 67.
DefaultMinLength == 20
DefaultMaxLength == 200
SessionsPerVideo == 5
FullTranscriptThreshold == 50

\* Bounds of the snapshot read: MaxVideos records, each of one of the
\* shapes below.
MaxVideos == 3

VideoIds == [k \in 1..MaxVideos |-> k]

\* Entry lists as the snapshot holds them: none, a few, and the 50 the
\* extraction keeps.
SentenceText == Str("this is one sentence.")
FragmentText == Str("and a fragment")

FewEntries ==
    <<EntryOf(SentenceText), EntryOf(FragmentText), EntryOf(Str("  ")),
      EntryOf(SentenceText), EntryOf(SentenceText), EntryOf(FragmentText),
      EntryOf(SentenceText)>>

FiftyEntries ==
    [k \in 1..50 |-> IF k % 3 = 0 THEN EntryOf(FragmentText) ELSE EntryOf(SentenceText)]

SuccessRecord(es) ==
    [title |-> "title", subject |-> "subject", language |-> "ko",
     full_transcript |-> "text", entries |-> es]

ErrorRecord == [title |-> "title", subject |-> "subject", error |-> "message"]

\* The two shapes of the snapshot format, and records that carry both
\* markers or neither.
RecordShapes ==
    {SuccessRecord(<<>>), SuccessRecord(FewEntries), SuccessRecord(FiftyEntries),
     ErrorRecord,
     [title |-> "title", subject |-> "subject", error |-> "message",
      entries |-> FewEntries],
     [title |-> "title", subject |-> "subject"]}

\* if 'error' in info or 'entries' not in info: continue
ShouldSkipWithoutEntriesOnly(info) == "entries" \notin DOMAIN info

ShouldSkip(info) == "error" \in DOMAIN info \/ "entries" \notin DOMAIN info

\* json.loads(open('youtube_transcripts.json').read())[video_id]
\*     .get('entries', entries): the file read again.
RereadEntries(file, video_id, default) ==
    LET info == (CHOOSE pair \in Range(file) : pair.video_id = video_id).info
    IN  IF "entries" \in DOMAIN info THEN info.entries ELSE default

\* Lines 66-68
EntriesUsed(file, video_id, info) ==
    IF Len(info.entries) < FullTranscriptThreshold
    THEN RereadEntries(file, video_id, info.entries)
    ELSE info.entries

\* Lines 71-80: session_dialogues
SessionDialogues(es) ==
    LET sessions == split_into_sessions(es, SessionsPerVideo).value
    IN  [i \in DOMAIN sessions |->
            [session |-> (i - 1) + 1,
             segments |-> extract_dialogue_segments(sessions[i], DefaultMinLength,
                                                    DefaultMaxLength)]]

\* processed[video_id] = {...}
WithKey(dict, key, value) ==
    [k \in DOMAIN dict \cup {key} |-> IF k = key THEN value ELSE dict[k]]

ProcessInit ==
    /\ stage = "process:loop"
    /\ snapshot \in {[k \in 1..MaxVideos |-> [video_id |-> VideoIds[k], info |-> shape[k]]] :
                        shape \in [1..MaxVideos -> RecordShapes]}
    /\ cursor = 1
    /\ processed = <<>>
    /\ processed_file = <<>>
    /\ SplitIdle
    /\ SegIdle
    /\ TranslateIdle
    /\ ExtractIdle

\* One pass of the loop that ends at continue.
SkipVideo ==
    /\ stage = "process:loop"
    /\ cursor <= Len(snapshot)
    /\ ShouldSkip(snapshot[cursor].info)
    /\ cursor' = cursor + 1
    /\ UNCHANGED <<stage, snapshot, processed, processed_file,
                   splitVars, segVars, translateVars, extractVars>>

\* One pass of the loop that adds a record to processed.
ProcessVideo ==
    /\ stage = "process:loop"
    /\ cursor <= Len(snapshot)
    /\ ~ShouldSkip(snapshot[cursor].info)
    /\ LET video_id == snapshot[cursor].video_id
           info == snapshot[cursor].info
       IN  processed' =
               WithKey(processed, video_id,
                       [title |-> info.title,
                        subject |-> info.subject,
                        sessions |-> SessionDialogues(EntriesUsed(snapshot, video_id, info))])
    /\ cursor' = cursor + 1
    /\ UNCHANGED <<stage, snapshot, processed_file,
                   splitVars, segVars, translateVars, extractVars>>

\* json.dump(processed, f) after the loop.
SaveProcessed ==
    /\ stage = "process:loop"
    /\ cursor > Len(snapshot)
    /\ processed_file' = processed
    /\ stage' = "process:done"
    /\ UNCHANGED <<snapshot, cursor, processed,
                   splitVars, segVars, translateVars, extractVars>>

ProcessNext == SkipVideo \/ ProcessVideo \/ SaveProcessed

SpecProcess == ProcessInit /\ [][ProcessNext]_vars

\* C6: a video id is in the processed output exactly when its record has
\* no error marker and has entries; the other records are left out
\* without stopping the loop; every record of the output has 5 sessions
\* numbered 1 to 5 in order.
C6_ProcessedIffUsable ==
    stage = "process:done" =>
        /\ \A k \in DOMAIN snapshot :
              (snapshot[k].video_id \in DOMAIN processed_file)
              <=> ("error" \notin DOMAIN snapshot[k].info
                   /\ "entries" \in DOMAIN snapshot[k].info)
        /\ \A id \in DOMAIN processed_file :
              /\ Len(processed_file[id].sessions) = 5
              /\ \A i \in 1..5 : processed_file[id].sessions[i].session = i

\* An error record and a record without entries come first and are left
\* out; the record after them is processed, and has segments.
C6_Witness ==
    /\ stage = "process:done"
    /\ "error" \in DOMAIN snapshot[1].info
    /\ "entries" \notin DOMAIN snapshot[2].info
    /\ DOMAIN processed_file = {snapshot[3].video_id}
    /\ \E i \in 1..5 : processed_file[snapshot[3].video_id].sessions[i].segments # <<>>


-----------------------------------------------------------------------------
(* src/extract_transcripts.py: the extraction loop *)

\* videos, lines 9-35; the titles are
\* '머신러닝 입문강의', '딥러닝 강의 1편 - 컴퓨터 비전', '인공지능 개론',
\* 'Big Data Analysis in Sports', '로지스틱 회귀분석'.
videos ==
    <<[id |-> "CgSvahZkJmc",
       title |-> <<"h:meo", "h:sin", "h:reo", "h:ning", " ", "h:ib", "h:mun",
                   "h:gang", "h:ui">>,
       subject |-> "machine-learning"],
      [id |-> "Adi0Iasehj8",
       title |-> <<"h:dib", "h:reo", "h:ning", " ", "h:gang", "h:ui", " ", "1",
                   "h:pyeon", " ", "-", " ", "h:keom", "h:pyu", "h:teo", " ",
                   "h:bi", "h:jeon">>,
       subject |-> "computer-vision"],
      [id |-> "Q07Cy5McV5U",
       title |-> <<"h:in", "h:gong", "h:ji", "h:neung", " ", "h:gae", "h:ron">>,
       subject |-> "machine-learning"],
      [id |-> "_NHmpQdB_u4",
       title |-> Str("Big Data Analysis in Sports"),
       subject |-> "machine-learning"],
      [id |-> "bfHKPsrwupI",
       title |-> <<"h:ro", "h:ji", "h:seu", "h:tig", " ", "h:hoe", "h:gwi",
                   "h:bun", "h:seog">>,
       subject |-> "machine-learning"]>>

\* for lang in ['ko', 'en', 'en-US', 'en-GB']
Languages == <<"ko", "en", "en-US", "en-GB">>

\* raw_data[:50]
EntriesKept == 50

\* Bound of the transcripts api.fetch returns: no snippets, or
\* MaxExtraSnippets more than the 50 that are kept.
MaxExtraSnippets == 1

SnippetCounts == {0, EntriesKept + MaxExtraSnippets}

\* What api.fetch(video['id'], [lang]) does: it raises, or it returns a
\* transcript in that language. The transcript object is a list of its
\* snippets to len() and bool().
Raises == [raises |-> TRUE]

Snippet(k) == [text |-> Str("a"), start |-> k, duration |-> 1]

FetchedTranscript(lang, n) ==
    [raises |-> FALSE, language_code |-> lang, snippets |-> [k \in 1..n |-> Snippet(k)]]

FetchOutcomes(lang) == {Raises} \cup {FetchedTranscript(lang, n) : n \in SnippetCounts}

\* What the fetches of one video do, language by language.
OutcomeVectors ==
    {<<ko, en, us, gb>> :
        ko \in FetchOutcomes(Languages[1]), en \in FetchOutcomes(Languages[2]),
        us \in FetchOutcomes(Languages[3]), gb \in FetchOutcomes(Languages[4])}

\* transcript_list = None
None == [none |-> TRUE]

\* The inner loop: the transcript of the first language whose fetch
\* returns, None when every fetch raises.
FirstFetched(outcome) ==
    LET returned == {i \in DOMAIN Languages : ~outcome[i].raises}
    IN  IF returned = {} THEN None ELSE outcome[Least(returned)]

\* not transcript_list: None is false, and so is a transcript without
\* snippets, since bool() of the object is len() of it # 0.
Truthy(x) == x # None /\ Len(x.snippets) # 0

\* transcript_list.to_raw_data()
ToRawData(transcript) ==
    [k \in DOMAIN transcript.snippets |->
        [text |-> transcript.snippets[k].text,
         start |-> transcript.snippets[k].start,
         duration |-> transcript.snippets[k].duration]]

\* Lines 57-69
SuccessEntry(video, transcript_list) ==
    LET raw_data == ToRawData(transcript_list)
    IN  [title |-> video.title,
         subject |-> video.subject,
         language |-> transcript_list.language_code,
         full_transcript |-> Join(<<" ">>, [k \in DOMAIN raw_data |-> raw_data[k].text]),
         entries |-> PySlice(raw_data, 0, EntriesKept)]

\* Lines 73-77, after the raise of line 54
ErrorEntry(video) ==
    [title |-> video.title,
     subject |-> video.subject,
     error |-> "No transcript found in available languages"]

ExtractInit ==
    /\ stage = "extract:loop"
    /\ transcripts = <<>>
    /\ video_cursor = 1
    /\ fetched = <<>>
    /\ transcripts_file = <<>>
    /\ SplitIdle
    /\ SegIdle
    /\ TranslateIdle
    /\ ProcessIdle

\* One pass of the outer loop through the try block to line 69.
ExtractOne ==
    /\ stage = "extract:loop"
    /\ video_cursor <= Len(videos)
    /\ \E outcome \in OutcomeVectors :
          /\ Truthy(FirstFetched(outcome))
          /\ transcripts' = WithKey(transcripts, videos[video_cursor].id,
                                    SuccessEntry(videos[video_cursor], FirstFetched(outcome)))
          /\ fetched' = WithKey(fetched, videos[video_cursor].id,
                                FirstFetched(outcome) # None)
    /\ video_cursor' = video_cursor + 1
    /\ UNCHANGED <<stage, transcripts_file, splitVars, segVars, translateVars, processVars>>

\* One pass of the outer loop that raises at line 54 and ends in the
\* except block.
ExtractFails ==
    /\ stage = "extract:loop"
    /\ video_cursor <= Len(videos)
    /\ \E outcome \in OutcomeVectors :
          /\ ~Truthy(FirstFetched(outcome))
          /\ transcripts' = WithKey(transcripts, videos[video_cursor].id,
                                    ErrorEntry(videos[video_cursor]))
          /\ fetched' = WithKey(fetched, videos[video_cursor].id,
                                FirstFetched(outcome) # None)
    /\ video_cursor' = video_cursor + 1
    /\ UNCHANGED <<stage, transcripts_file, splitVars, segVars, translateVars, processVars>>

\* json.dump(transcripts, f) after the loop.
SaveTranscripts ==
    /\ stage = "extract:loop"
    /\ video_cursor > Len(videos)
    /\ transcripts_file' = transcripts
    /\ stage' = "extract:done"
    /\ UNCHANGED <<transcripts, video_cursor, fetched,
                   splitVars, segVars, translateVars, processVars>>

ExtractNext == ExtractOne \/ ExtractFails \/ SaveTranscripts

SpecExtract == ExtractInit /\ [][ExtractNext]_vars

IsSuccessRecord(r) ==
    {"full_transcript", "entries"} \subseteq DOMAIN r /\ "error" \notin DOMAIN r

IsErrorRecord(r) ==
    "error" \in DOMAIN r /\ DOMAIN r \cap {"full_transcript", "entries"} = {}

\* C7: the loop visits every configured video in order, a video whose
\* fetch returned in some language gets a success record and every other
\* video an error record, and when the loop ends the snapshot holds one
\* record per configured video.
C7_OneRecordPerVideo ==
    /\ \A k \in DOMAIN videos :
          k < video_cursor =>
              /\ videos[k].id \in DOMAIN transcripts
              /\ IF fetched[videos[k].id]
                 THEN IsSuccessRecord(transcripts[videos[k].id])
                 ELSE IsErrorRecord(transcripts[videos[k].id])
    /\ DOMAIN transcripts = {videos[k].id : k \in 1..(video_cursor - 1)}
    /\ stage = "extract:done" =>
          DOMAIN transcripts_file = {videos[k].id : k \in DOMAIN videos}

\* What holds of the loop: no video stops the ones after it, every video
\* handled has a success record or an error record, and a success record
\* only when a fetch returned.
ExtractIsolation ==
    /\ \A k \in DOMAIN videos :
          k < video_cursor =>
              /\ videos[k].id \in DOMAIN transcripts
              /\ \/ IsSuccessRecord(transcripts[videos[k].id]) /\ fetched[videos[k].id]
                 \/ IsErrorRecord(transcripts[videos[k].id])
    /\ DOMAIN transcripts = {videos[k].id : k \in 1..(video_cursor - 1)}
    /\ stage = "extract:done" =>
          DOMAIN transcripts_file = {videos[k].id : k \in DOMAIN videos}

=============================================================================
